---- MODULE Spec2Model ----
(***************************************************************************)
(* Model of auto_history_pipeline_timecode.py: the per-topic pipeline      *)
(* (summary fetch, three script variants with local fallbacks, timecode    *)
(* segmentation of the short script, two output files) and its pure text   *)
(* functions.                                                              *)
(*                                                                         *)
(* A text is a sequence of characters.  A character is a one-element       *)
(* string; "\n" is the newline, " " the space, "." the period, "," the     *)
(* comma.  A literal fragment of the program that holds no newline and no  *)
(* period and neither starts nor ends with whitespace is written as one    *)
(* character (for example "Point 1:"): split('\n'), split('.'), strip()    *)
(* and replace('\n',' ') treat such a fragment exactly as they treat one   *)
(* letter.  Vietnamese literals are written without diacritics.            *)
(***************************************************************************)
EXTENDS Integers, Sequences, FiniteSets, TLC

VARIABLES
    \* ---- pure-function harness ----
    text,        \* the input text under construction
    phase,       \* "build" while the input is built, then "segmented" or
                 \* "formatted"; "idle" when main runs instead
    result,      \* what the function under test returned
    \* ---- command line and process environment ----
    topics_given,      \* --topics present on the command line
    topics_arg,        \* args.topics
    lang,              \* args.lang
    no_ai,             \* args.no_ai
    OPENAI_AVAILABLE,  \* import openai succeeded
    WIKI_AVAILABLE,    \* import wikipedia succeeded
    api_key_set,       \* os.getenv("OPENAI_API_KEY") is a non-empty string
    \* ---- main ----
    pc,          \* position of the single thread of control
    topics,      \* main's list of topics
    idx,         \* number of topics main's loop has finished
    \* ---- process_topic's locals ----
    topic, use_ai, summary, scripts, segments, meta,
    \* ---- the world outside ----
    calls,       \* per variant, the prompts sent to the generation service
    ext,         \* per variant, what the generation service did
    fetch,       \* what the summary fetch did
    files,       \* files written so far, in order
    log,         \* steps started so far, in order
    twin         \* the same run of process_topic with use_ai negated

pureVars == <<text, phase, result>>
envVars  == <<topics_given, topics_arg, lang, no_ai, OPENAI_AVAILABLE,
              WIKI_AVAILABLE, api_key_set>>
mainVars == <<pc, topics, idx>>
topicVars == <<topic, use_ai, summary, scripts, segments, meta>>
worldVars == <<calls, ext, fetch, files, log, twin>>
vars == <<pureVars, envVars, mainVars, topicVars, worldVars>>

----------------------------------------------------------------------------
(* Bounds of the model. *)

\* longest script text given to split_script_to_segments on its own
MaxLen == 5
\* most sentences appended to a summary given to the long formatter on its own
MaxSents == 7
\* most comma-separated entries in the --topics value
MaxEntries == 2

----------------------------------------------------------------------------
(* Python's string operations, on sequences of characters. *)

NL == "\n"
SP == " "
DOT == "."
COMMA == ","

\* the characters str.strip() removes (those of them that texts here hold)
Whitespace == {SP, NL}

Min(S) == CHOOSE x \in S : \A y \in S : x <= y
Max(S) == CHOOSE x \in S : \A y \in S : x >= y

\* s.strip()
Strip(s) ==
    LET keep == {i \in 1..Len(s) : s[i] \notin Whitespace}
    IN  IF keep = {} THEN <<>> ELSE SubSeq(s, Min(keep), Max(keep))

\* s.split(sep) for a one-character sep: every piece, the empty ones too
RECURSIVE Split(_, _)
Split(s, sep) ==
    LET hits == {i \in 1..Len(s) : s[i] = sep}
    IN  IF hits = {} THEN <<s>>
        ELSE <<SubSeq(s, 1, Min(hits) - 1)>>
             \o Split(SubSeq(s, Min(hits) + 1, Len(s)), sep)

\* s.replace(a, b) for one-character a and b
Replace(s, a, b) == [i \in 1..Len(s) |-> IF s[i] = a THEN b ELSE s[i]]

\* sep.join(list)
RECURSIVE Join(_, _)
Join(sep, list) ==
    IF list = <<>> THEN <<>>
    ELSE IF Len(list) = 1 THEN list[1]
    ELSE list[1] \o sep \o Join(sep, Tail(list))

\* [p.strip() for p in pieces if p.strip()]
NonEmpty(s) == s # <<>>
StripAll(pieces) == [i \in 1..Len(pieces) |-> Strip(pieces[i])]
StrippedNonEmpty(pieces) == SelectSeq(StripAll(pieces), NonEmpty)

\* list[a:b] for 0 <= a, 0 <= b (Python's half-open slice, clipped)
Slice(list, a, b) == SubSeq(list, a + 1, IF b < Len(list) THEN b ELSE Len(list))

\* s.startswith("vi")
StartsWithVi(s) == Len(s) >= 2 /\ s[1] = "v" /\ s[2] = "i"

\* the concatenation of a list of lists
RECURSIVE Flatten(_)
Flatten(lists) == IF lists = <<>> THEN <<>> ELSE lists[1] \o Flatten(Tail(lists))

----------------------------------------------------------------------------
(* split_script_to_segments *)

HookDuration == 8
PointDuration == 15
CtaDuration == 7

\* parts = [p.strip() for p in script_text.split('\n') if p.strip()]
ScriptParts(script_text) == StrippedNonEmpty(Split(script_text, NL))

\* (mutation of MiddleLines: parts[1:-1] whatever the number of lines)
MiddleLines_strictlyBetween(parts) ==
    IF Len(parts) > 1 THEN Slice(parts, 1, Len(parts) - 1) ELSE <<>>

\* middle = parts[1:-1] if len(parts)>2 else parts[1:]
MiddleLines(parts) ==
    IF Len(parts) > 2 THEN Slice(parts, 1, Len(parts) - 1)
    ELSE Slice(parts, 1, Len(parts))

\* sents = [s.strip() for s in p.split('.') if s.strip()]
LineSentences(p) == StrippedNonEmpty(Split(p, DOT))

\* the loop over middle that appends while len(points) < 3, then the padding
Points(middle) ==
    LET all == Flatten([i \in 1..Len(middle) |-> LineSentences(middle[i])])
        kept == Slice(all, 0, 3)
    IN  kept \o [i \in 1..(3 - Len(kept)) |-> <<>>]

PointRole(i) == CASE i = 1 -> "point1" [] i = 2 -> "point2" [] i = 3 -> "point3"

\* (mutation of AssignTimes: cur = s['start'] in place of cur = s['end'])
AssignTimes_curNotAdvanced(segs, cur) ==
    [i \in 1..Len(segs) |->
        [role |-> segs[i].role, text |-> segs[i].text,
         duration |-> segs[i].duration,
         start |-> cur, end |-> cur + segs[i].duration]]

\* the loop that gives every segment its start and end
RECURSIVE AssignTimes(_, _)
AssignTimes(segs, cur) ==
    IF segs = <<>> THEN <<>>
    ELSE LET s == segs[1]
             e == cur + s.duration
         IN  <<[role |-> s.role, text |-> s.text, duration |-> s.duration,
                start |-> cur, end |-> e]>>
             \o AssignTimes(Tail(segs), e)

split_script_to_segments(script_text) ==
    LET parts == ScriptParts(script_text)
        hook == IF parts # <<>> THEN parts[1] ELSE <<>>
        middle == MiddleLines(parts)
        cta == IF Len(parts) > 1 THEN parts[Len(parts)] ELSE <<>>
        points == Points(middle)
        segs == <<[role |-> "hook", text |-> hook, duration |-> HookDuration]>>
                \o [i \in 1..3 |-> [role |-> PointRole(i), text |-> points[i],
                                    duration |-> PointDuration]]
                \o <<[role |-> "cta", text |-> cta, duration |-> CtaDuration]>>
    IN  AssignTimes(segs, 0)

----------------------------------------------------------------------------
(* The local fallback formatters. *)

\* sents = [s.strip() for s in summary.replace("\n"," ").split('.') if s.strip()]
Sentences(summary_text) ==
    StrippedNonEmpty(Split(Replace(summary_text, NL, SP), DOT))

LongCta(lang_text) ==
    IF StartsWithVi(lang_text)
    THEN <<"Neu ban muon tim hieu sau hon, hay theo doi kenh de xem cac video tiep theo", DOT>>
    ELSE <<"If you want to learn more, subscribe for future videos", DOT>>

\* " ".join(sents[1:6])
LongMiddle(sents) == Join(<<SP>>, Slice(sents, 1, 6))

local_fallback_formatter_long(topic_text, summary_text, lang_text) ==
    LET sents == Sentences(summary_text)
        intro == IF sents # <<>> THEN sents[1]
                 ELSE topic_text \o <<SP, "la mot chu de lich su thu vi", DOT>>
        middle == LongMiddle(sents)
        closing == IF Len(sents) > 6 THEN sents[7] ELSE <<>>
    IN  intro \o <<DOT, SP>> \o middle \o <<DOT, SP>> \o closing \o <<DOT, SP>>
        \o LongCta(lang_text)

local_fallback_formatter_fromsummary(summary_text, lang_text) ==
    LET sents == Sentences(summary_text)
        pts == Slice(sents, 0, 6)
    IN  Join(<<SP>>, pts)
        \o (IF StartsWithVi(lang_text)
            THEN <<SP, "Nguon: Wikipedia", DOT>>
            ELSE <<SP, "Sources: Wikipedia", DOT>>)

local_fallback_formatter_short(topic_text, summary_text, lang_text) ==
    LET sents == Sentences(summary_text)
        p1 == IF sents # <<>> THEN sents[1]
              ELSE topic_text \o <<SP, "co nhieu dieu thu vi", DOT>>
        p2 == IF Len(sents) > 1 THEN sents[2] ELSE <<>>
        p3 == IF Len(sents) > 2 THEN sents[3] ELSE <<>>
    IN  IF StartsWithVi(lang_text)
        THEN <<"Ban co biet ve", SP>> \o topic_text \o <<"?">>
             \o <<NL, NL>>
             \o <<"Y 1:", SP>> \o p1 \o <<DOT, SP, "Y 2:", SP>> \o p2
             \o <<DOT, SP, "Y 3:", SP>> \o p3 \o <<DOT>>
             \o <<NL, NL>>
             \o <<"Neu ban thich, hay like va theo doi", DOT>>
        ELSE <<"Did you know about", SP>> \o topic_text \o <<"?">>
             \o <<NL, NL>>
             \o <<"Point 1:", SP>> \o p1 \o <<DOT, SP, "Point 2:", SP>> \o p2
             \o <<DOT, SP, "Point 3:", SP>> \o p3 \o <<DOT>>
             \o <<NL, NL>>
             \o <<"Like and subscribe for more", DOT>>

----------------------------------------------------------------------------
(* The values the process environment and the outside world can take. *)

LangVi == <<"v", "i">>
LangEn == <<"e", "n">>
Langs == {LangVi, LangEn}

Variants == {"long", "from_summary", "short"}

\* Python's None where a text is expected: a one-character text that no
\* text of the program equals
None == <<"None">>

NoScripts == [v \in Variants |-> None]
NoCalls == [v \in Variants |-> <<>>]
NoExt == [v \in Variants |-> [kind |-> "not_called"]]
NoTwin == [scripts |-> NoScripts, calls |-> NoCalls, segments |-> <<>>]

\* every variable of the pipeline at rest: nothing parsed, nothing running
PipelineAtRest ==
    /\ topics_given = FALSE /\ topics_arg = <<>> /\ no_ai = FALSE
    /\ OPENAI_AVAILABLE = FALSE /\ WIKI_AVAILABLE = FALSE /\ api_key_set = FALSE
    /\ pc = "idle" /\ topics = <<>> /\ idx = 0
    /\ use_ai = TRUE /\ summary = None /\ scripts = NoScripts
    /\ segments = <<>> /\ meta = "None"
    /\ calls = NoCalls /\ ext = NoExt /\ fetch = [kind |-> "not_called"]
    /\ files = <<>> /\ log = <<>> /\ twin = NoTwin

----------------------------------------------------------------------------
(* split_script_to_segments on its own: every text of at most MaxLen       *)
(* characters is typed, then segmented.                                    *)

SegChars == {"a", "b", DOT, SP, NL}

SegInit ==
    /\ text = <<>> /\ phase = "build" /\ result = "None"
    /\ lang = LangVi /\ topic = <<>>
    /\ PipelineAtRest

TypeChar ==
    /\ phase = "build" /\ Len(text) < MaxLen
    /\ \E c \in SegChars : text' = Append(text, c)
    /\ UNCHANGED <<phase, result, envVars, mainVars, topicVars, worldVars>>

CallSegmenter ==
    /\ phase = "build"
    /\ result' = split_script_to_segments(text)
    /\ phase' = "segmented"
    /\ UNCHANGED <<text, envVars, mainVars, topicVars, worldVars>>

SegNext == TypeChar \/ CallSegmenter

SpecSeg == SegInit /\ [][SegNext]_vars

----------------------------------------------------------------------------
(* local_fallback_formatter_long on its own: a summary of at most MaxSents *)
(* sentences "A", "B", ... is written, each followed by one of the ways a   *)
(* sentence ends, then formatted.                                          *)

SentenceLetters == <<"A", "B", "C", "D", "E", "F", "G", "H", "I", "J">>
SentenceEnds == {<<DOT>>, <<DOT, SP>>, <<DOT, NL>>}
TopicsForLong == {<<"N">>, <<>>}

SentencesWritten == Cardinality({i \in 1..Len(text) : text[i] = DOT})

LongInit ==
    /\ text = <<>> /\ phase = "build" /\ result = "None"
    /\ lang \in Langs /\ topic \in TopicsForLong
    /\ PipelineAtRest

WriteSentence ==
    /\ phase = "build" /\ SentencesWritten < MaxSents
    /\ \E e \in SentenceEnds :
          text' = text \o <<SentenceLetters[SentencesWritten + 1]>> \o e
    /\ UNCHANGED <<phase, result, envVars, mainVars, topicVars, worldVars>>

CallLongFormatter ==
    /\ phase = "build"
    /\ result' = local_fallback_formatter_long(topic, text, lang)
    /\ phase' = "formatted"
    /\ UNCHANGED <<text, envVars, mainVars, topicVars, worldVars>>

LongNext == WriteSentence \/ CallLongFormatter

SpecLong == LongInit /\ [][LongNext]_vars

----------------------------------------------------------------------------
(* Claims about split_script_to_segments (checked under SpecSeg). *)

Field(segs, f) == [i \in 1..Len(segs) |-> segs[i][f]]

FixedTiming(segs) ==
    /\ Len(segs) = 5
    /\ Field(segs, "role") = <<"hook", "point1", "point2", "point3", "cta">>
    /\ Field(segs, "duration") = <<8, 15, 15, 15, 7>>
    /\ Field(segs, "start") = <<0, 8, 23, 38, 53>>
    /\ Field(segs, "end") = <<8, 23, 38, 53, 60>>

\* C1: whatever the text (empty, one line, many lines), the segmenter
\* returns exactly five segments with roles hook, point1, point2, point3,
\* cta, durations 8, 15, 15, 15, 7, starts 0, 8, 23, 38, 53 and ends
\* 8, 23, 38, 53, 60.
C1_FixedFiveSlots == phase = "segmented" => FixedTiming(result)

\* a text of three lines whose middle line gives point1 its text was segmented
C1_Witness ==
    /\ phase = "segmented"
    /\ Len(ScriptParts(text)) >= 3
    /\ result[2].text # <<>>

PointTexts(segs) == <<segs[2].text, segs[3].text, segs[4].text>>

----------------------------------------------------------------------------
(* Claim about local_fallback_formatter_long (checked under SpecLong). *)

StartsWith(s, p) == Len(s) >= Len(p) /\ SubSeq(s, 1, Len(p)) = p
EndsWith(s, p) == Len(s) >= Len(p) /\ SubSeq(s, Len(s) - Len(p) + 1, Len(s)) = p
Contains(s, p) ==
    \E i \in 1..(Len(s) - Len(p) + 1) : SubSeq(s, i, i + Len(p) - 1) = p

SevenSentences ==
    <<"A", DOT, SP, "B", DOT, SP, "C", DOT, SP, "D", DOT, SP,
      "E", DOT, SP, "F", DOT, SP, "G", DOT>>

\* C6 as stated: on the summary "A. B. C. D. E. F. G." in the primary
\* language the long formatter returns "{intro}. {middle}. {closing}. {CTA}"
\* with intro "A", a middle joined by period-space, "B. C. D. E. F", and
\* closing "G".
C6_LongMiddleJoinedByPeriodSpace ==
    (phase = "formatted" /\ text = SevenSentences /\ lang = LangVi) =>
        /\ StartsWith(result, <<"A", DOT, SP>>)
        /\ Contains(result, <<"B", DOT, SP, "C", DOT, SP, "D", DOT, SP,
                              "E", DOT, SP, "F">>)
        /\ EndsWith(result, <<"G", DOT, SP>> \o LongCta(LangVi))

----------------------------------------------------------------------------
(* The pipeline: main, process_topic, generate_three_scripts.              *)

\* the --topics values: at most MaxEntries comma-separated entries, each
\* blank, a bare topic or a topic with spaces around it
Entries == {<<>>, <<"N">>, <<SP, "R", SP>>}
ArgTexts ==
    {Join(<<COMMA>>, e) : e \in UNION {[1..n -> Entries] : n \in 0..MaxEntries}}

\* what wikipedia.summary / wikipedia.page can do when the package is there
FetchErrors == {<<>>, <<"e">>}
Summaries == {<<>>, <<"A", DOT, SP, "B", DOT>>}
FetchOutcomes ==
    [kind : {"raised"}, msg : FetchErrors] \cup [kind : {"ok"}, summary : Summaries]

\* the message of the RuntimeError raised when the package is missing
WikiMissingMsg == <<"Package wikipedia khong co", DOT, SP, "Cai: pip install wikipedia">>

\* what the request can do: "raises" is an exception out of
\* openai.ChatCompletion.create or out of resp['choices'][0]['message']
\* ['content'].strip() on a malformed response (both leave call_openai the
\* same way); "ok" is a response whose content is a text
ExtTexts == {<<SP>>, <<SP, "h", NL, "p", DOT, "q", NL, "c", SP>>}
ExtOutcomes == [kind : {"raises"}] \cup [kind : {"ok"}, content : ExtTexts]

\* topics = [t.strip() for t in args.topics.split(',') if t.strip()]
ParseTopics(arg) == StrippedNonEmpty(Split(arg, COMMA))

\* safe_name = topic.replace(' ','_').replace('/','_')
SafeName(topic_text) == Replace(Replace(topic_text, SP, "_"), "/", "_")
TxtFile(topic_text) == <<"script_">> \o SafeName(topic_text) \o <<".txt">>
JsonFile(topic_text) == <<"script_">> \o SafeName(topic_text) \o <<".json">>

\* summary = f"[Khong lay duoc Wikipedia. Ly do: {str(e)}]"
Placeholder(msg) ==
    <<"[Khong lay duoc Wikipedia", DOT, SP, "Ly do:", SP>> \o msg \o <<"]">>

\* PROMPT_X[lang_key].format(...): the template chosen and the text put in it
Prompt(v, topic_text, summary_text, lang_text) ==
    [template |-> v,
     lang_key |-> IF StartsWithVi(lang_text) THEN "vi" ELSE "en",
     filled_with |-> IF v = "from_summary" THEN summary_text ELSE topic_text]

\* (mutation of call_openai: a failed request is sent a second time)
call_openai_retry(prompt, o, sent) ==
    IF ~OPENAI_AVAILABLE \/ ~api_key_set
    THEN [raised |-> TRUE, value |-> None, sent |-> sent]
    ELSE IF o.kind = "ok"
    THEN [raised |-> FALSE, value |-> Strip(o.content), sent |-> Append(sent, prompt)]
    ELSE [raised |-> TRUE, value |-> None, sent |-> sent \o <<prompt, prompt>>]

\* call_openai(prompt), the service doing o; sent is the list of the prompts
\* that have gone out for this variant
call_openai(prompt, o, sent) ==
    IF ~OPENAI_AVAILABLE
    THEN [raised |-> TRUE, value |-> None, sent |-> sent]
    ELSE IF ~api_key_set
    THEN [raised |-> TRUE, value |-> None, sent |-> sent]
    ELSE IF o.kind = "ok"
    THEN [raised |-> FALSE, value |-> Strip(o.content), sent |-> Append(sent, prompt)]
    ELSE [raised |-> TRUE, value |-> None, sent |-> Append(sent, prompt)]

\* (mutation of Fallback: the long formatter pasted into every except branch)
Fallback_longEverywhere(v, topic_text, summary_text, lang_text) ==
    local_fallback_formatter_long(topic_text, summary_text, lang_text)

\* the local formatter of variant v
Fallback(v, topic_text, summary_text, lang_text) ==
    CASE v = "long" ->
            local_fallback_formatter_long(topic_text, summary_text, lang_text)
      [] v = "from_summary" ->
            local_fallback_formatter_fromsummary(summary_text, lang_text)
      [] v = "short" ->
            local_fallback_formatter_short(topic_text, summary_text, lang_text)

\* (mutation of UsesOpenAI: the --no_ai toggle gates the external call)
UsesOpenAI_unlessNoAi(use_ai_of_run) ==
    use_ai_of_run /\ OPENAI_AVAILABLE /\ api_key_set

\* "if OPENAI_AVAILABLE and os.getenv("OPENAI_API_KEY")" in
\* generate_three_scripts, called by a run of process_topic whose use_ai
\* argument is use_ai_of_run: the argument is not handed on and not read
UsesOpenAI(use_ai_of_run) == OPENAI_AVAILABLE /\ api_key_set

\* one try/except block of generate_three_scripts: variant v, the service
\* doing o if it is called, in a run of process_topic with the given use_ai;
\* run holds that run's scripts and the prompts it has sent
GenerateVariant(v, o, use_ai_of_run, run) ==
    LET r == IF UsesOpenAI(use_ai_of_run)
             THEN call_openai(Prompt(v, topic, summary, lang), o, run.calls[v])
             ELSE [raised |-> FALSE,
                   value |-> Fallback(v, topic, summary, lang),
                   sent |-> run.calls[v]]
        script == IF r.raised THEN Fallback(v, topic, summary, lang) ELSE r.value
    IN  [scripts |-> [run.scripts EXCEPT ![v] = script],
         calls |-> [run.calls EXCEPT ![v] = r.sent]]

\* (mutation of NextStep: from_summary is generated before long)
NextStep_fromSummaryFirst(step) ==
    CASE step = "fetch" -> "gen_from_summary"
      [] step = "gen_from_summary" -> "gen_long"
      [] step = "gen_long" -> "gen_short"
      [] step = "gen_short" -> "segment"
      [] step = "segment" -> "write_txt"
      [] step = "write_txt" -> "write_json"
      [] step = "write_json" -> "return"

\* the statement that follows each statement of process_topic
NextStep(step) ==
    CASE step = "fetch" -> "gen_long"
      [] step = "gen_long" -> "gen_from_summary"
      [] step = "gen_from_summary" -> "gen_short"
      [] step = "gen_short" -> "segment"
      [] step = "segment" -> "write_txt"
      [] step = "write_txt" -> "write_json"
      [] step = "write_json" -> "return"

Logged(step) == Append(log, [k |-> idx + 1, topic |-> topic, step |-> step])

PureAtRest == text = <<>> /\ phase = "idle" /\ result = "None"

NoLocals ==
    /\ topic = <<>> /\ use_ai = TRUE /\ summary = None /\ scripts = NoScripts
    /\ segments = <<>> /\ meta = "None"
    /\ calls = NoCalls /\ ext = NoExt /\ fetch = [kind |-> "not_called"]
    /\ twin = NoTwin

Init ==
    /\ PureAtRest
    /\ topics_given \in BOOLEAN
    /\ topics_arg \in (IF topics_given THEN ArgTexts ELSE {<<>>})
    /\ lang \in Langs
    /\ no_ai \in BOOLEAN
    /\ OPENAI_AVAILABLE \in BOOLEAN
    /\ WIKI_AVAILABLE \in BOOLEAN
    /\ api_key_set \in BOOLEAN
    /\ pc = "main" /\ topics = <<>> /\ idx = 0
    /\ NoLocals
    /\ files = <<>> /\ log = <<>>

\* parser.parse_args() without the required --topics: usage message, exit 2
UsageError ==
    /\ pc = "main" /\ ~topics_given
    /\ pc' = "usage_error"
    /\ UNCHANGED <<pureVars, envVars, topics, idx, topicVars, worldVars>>

\* parse_args succeeds; topics is computed
ParseArgs ==
    /\ pc = "main" /\ topics_given
    /\ topics' = ParseTopics(topics_arg)
    /\ pc' = "loop"
    /\ UNCHANGED <<pureVars, envVars, idx, topicVars, worldVars>>

\* the for loop takes the next topic and calls process_topic, which makes the
\* output folder and names its two files
BeginTopic ==
    /\ pc = "loop" /\ idx < Len(topics)
    /\ topic' = topics[idx + 1]
    /\ use_ai' = ~no_ai
    /\ pc' = "fetch"
    /\ UNCHANGED <<pureVars, envVars, topics, idx, summary, scripts, segments,
                   meta, worldVars>>

\* (mutation of FetchSummary: no try/except, a failed fetch ends the program)
FetchSummary_propagates ==
    /\ pc = "fetch"
    /\ \E o \in FetchOutcomes :
          LET did == IF WIKI_AVAILABLE THEN o
                     ELSE [kind |-> "raised", msg |-> WikiMissingMsg]
          IN  /\ fetch' = did
              /\ summary' = IF did.kind = "ok" THEN did.summary ELSE None
              /\ pc' = IF did.kind = "ok" THEN "gen_long" ELSE "crashed"
    /\ log' = Logged("fetch")
    /\ UNCHANGED <<pureVars, envVars, topics, idx, topic, use_ai, scripts,
                   segments, meta, calls, ext, files, twin>>

\* try: fetch_wikipedia_summary(...) except Exception as e: placeholder
FetchSummary ==
    /\ pc = "fetch"
    /\ \E o \in FetchOutcomes :
          LET did == IF WIKI_AVAILABLE THEN o
                     ELSE [kind |-> "raised", msg |-> WikiMissingMsg]
          IN  /\ fetch' = did
              /\ summary' = IF did.kind = "ok" THEN did.summary
                            ELSE Placeholder(did.msg)
    /\ log' = Logged("fetch")
    /\ pc' = NextStep("fetch")
    /\ UNCHANGED <<pureVars, envVars, topics, idx, topic, use_ai, scripts,
                   segments, meta, calls, ext, files, twin>>

\* one try/except block of generate_three_scripts, in this run and its twin
Generate(v) ==
    \E o \in ExtOutcomes :
        LET mine == GenerateVariant(v, o, use_ai, [scripts |-> scripts, calls |-> calls])
            other == GenerateVariant(v, o, ~use_ai, twin)
        IN  /\ scripts' = mine.scripts
            /\ calls' = mine.calls
            /\ ext' = [ext EXCEPT ![v] = IF mine.calls[v] # calls[v] THEN o
                                         ELSE [kind |-> "not_called"]]
            /\ twin' = [twin EXCEPT !.scripts = other.scripts,
                                    !.calls = other.calls]

GenLong ==
    /\ pc = "gen_long"
    /\ Generate("long")
    /\ log' = Logged("gen_long")
    /\ pc' = NextStep("gen_long")
    /\ UNCHANGED <<pureVars, envVars, topics, idx, topic, use_ai, summary,
                   segments, meta, fetch, files>>

GenFromSummary ==
    /\ pc = "gen_from_summary"
    /\ Generate("from_summary")
    /\ log' = Logged("gen_from_summary")
    /\ pc' = NextStep("gen_from_summary")
    /\ UNCHANGED <<pureVars, envVars, topics, idx, topic, use_ai, summary,
                   segments, meta, fetch, files>>

GenShort ==
    /\ pc = "gen_short"
    /\ Generate("short")
    /\ log' = Logged("gen_short")
    /\ pc' = NextStep("gen_short")
    /\ UNCHANGED <<pureVars, envVars, topics, idx, topic, use_ai, summary,
                   segments, meta, fetch, files>>

\* segments = split_script_to_segments(scripts['short'], lang=lang)
Segment ==
    /\ pc = "segment"
    /\ segments' = split_script_to_segments(scripts["short"])
    /\ twin' = [twin EXCEPT !.segments = split_script_to_segments(twin.scripts["short"])]
    /\ log' = Logged("segment")
    /\ pc' = NextStep("segment")
    /\ UNCHANGED <<pureVars, envVars, topics, idx, topic, use_ai, summary,
                   scripts, meta, calls, ext, fetch, files>>

\* with open(txt_file, 'w') ...: the human readable document
WriteTxt ==
    /\ pc = "write_txt"
    /\ files' = Append(files, TxtFile(topic))
    /\ log' = Logged("write_txt")
    /\ pc' = NextStep("write_txt")
    /\ UNCHANGED <<pureVars, envVars, topics, idx, topicVars, calls, ext,
                   fetch, twin>>

\* meta = {...}; json.dump(meta, f, ...)
WriteJson ==
    /\ pc = "write_json"
    /\ meta' = [topic |-> topic, lang |-> lang, summary |-> summary,
                scripts |-> scripts, segments |-> segments]
    /\ files' = Append(files, JsonFile(topic))
    /\ log' = Logged("write_json")
    /\ pc' = NextStep("write_json")
    /\ UNCHANGED <<pureVars, envVars, topics, idx, topic, use_ai, summary,
                   scripts, segments, calls, ext, fetch, twin>>

\* return txt_file, json_file; main prints "Saved:"; process_topic's locals
\* are gone
ReturnToMain ==
    /\ pc = "return"
    /\ idx' = idx + 1
    /\ pc' = "loop"
    /\ topic' = <<>> /\ use_ai' = TRUE /\ summary' = None
    /\ scripts' = NoScripts /\ segments' = <<>> /\ meta' = "None"
    /\ calls' = NoCalls /\ ext' = NoExt /\ fetch' = [kind |-> "not_called"]
    /\ twin' = NoTwin
    /\ UNCHANGED <<pureVars, envVars, topics, files, log>>

\* the loop is over: print("Done.")
PrintDone ==
    /\ pc = "loop" /\ idx >= Len(topics)
    /\ pc' = "done"
    /\ UNCHANGED <<pureVars, envVars, topics, idx, topicVars, worldVars>>

Next ==
    \/ UsageError \/ ParseArgs \/ BeginTopic \/ FetchSummary
    \/ GenLong \/ GenFromSummary \/ GenShort \/ Segment
    \/ WriteTxt \/ WriteJson \/ ReturnToMain \/ PrintDone

Spec == Init /\ [][Next]_vars

----------------------------------------------------------------------------
(* Claims about generate_three_scripts (checked under Spec). *)

ExternalEnabled == OPENAI_AVAILABLE /\ api_key_set

\* the text the local formatter of variant v gives for this topic
OwnSynthesizer(v) ==
    IF v = "long" THEN local_fallback_formatter_long(topic, summary, lang)
    ELSE IF v = "from_summary" THEN local_fallback_formatter_fromsummary(summary, lang)
    ELSE local_fallback_formatter_short(topic, summary, lang)

\* C3 as stated: whatever the service does (absent, no credential, raises,
\* returns any text, a blank one included), once generate_three_scripts has
\* returned every one of the three scripts is a non-empty text.
C3_AllScriptsNonEmpty ==
    pc \in {"segment", "write_txt", "write_json", "return"} =>
        \A v \in Variants : scripts[v] # None /\ scripts[v] # <<>>

\* C4: every variant is attempted on the service exactly when the service is
\* enabled, whatever happened to the other variants; a variant whose call
\* failed (or was not made) holds the text of its own local formatter on the
\* same topic, summary and language; a variant whose call succeeded holds
\* the trimmed text the service returned.
C4_FailuresIsolatedPerVariant ==
    \A v \in Variants :
        scripts[v] # None =>
            /\ (ext[v].kind # "not_called") <=> ExternalEnabled
            /\ scripts[v] = IF ext[v].kind = "ok" THEN Strip(ext[v].content)
                            ELSE OwnSynthesizer(v)

\* long and short failed, from_summary succeeded, and all three are set
C4_Witness ==
    /\ pc = "segment"
    /\ ext["long"].kind = "raises"
    /\ ext["from_summary"].kind = "ok"
    /\ ext["short"].kind = "raises"
    /\ scripts["from_summary"] = <<"h", NL, "p", DOT, "q", NL, "c">>

\* C5: for one topic, each variant sends at most one request; a request
\* that failed was sent exactly once; without the package or without the
\* credential no request is sent and every script made is the text of its
\* local formatter.
C5_AtMostOneCallPerVariant ==
    \A v \in Variants :
        /\ Len(calls[v]) <= 1
        /\ ext[v].kind = "raises" => Len(calls[v]) = 1
        /\ ~ExternalEnabled =>
              /\ calls[v] = <<>>
              /\ scripts[v] # None => scripts[v] = OwnSynthesizer(v)

\* the request for long failed and went out once; the fallback was used
C5_Witness ==
    /\ pc = "gen_from_summary"
    /\ ext["long"].kind = "raises"
    /\ Len(calls["long"]) = 1
    /\ scripts["long"] = OwnSynthesizer("long")

----------------------------------------------------------------------------
(* Claim about main's handling of the topic list (checked under Spec). *)

\* C7 as stated: with --topics missing, or holding only commas and blanks
\* (no topic is left after splitting and discarding blank entries), main
\* ends in a usage failure; it never reaches "Done.".
C7_NoTopicsIsUsageFailure ==
    (~topics_given \/ \A i \in 1..Len(topics_arg) : topics_arg[i] \in {COMMA, SP})
        => pc # "done"

----------------------------------------------------------------------------
(* Claim about process_topic's record (checked under Spec). *)

StepOrder == <<"fetch", "gen_long", "gen_from_summary", "gen_short",
               "segment", "write_txt", "write_json">>

StepNames == {"fetch", "gen_long", "gen_from_summary", "gen_short",
              "segment", "write_txt", "write_json"}

\* how many of its seven steps process_topic has finished at position p
StepsDone(p) ==
    CASE p = "fetch" -> 0 [] p = "gen_long" -> 1 [] p = "gen_from_summary" -> 2
      [] p = "gen_short" -> 3 [] p = "segment" -> 4 [] p = "write_txt" -> 5
      [] p = "write_json" -> 6 [] p = "return" -> 7

RecordComplete ==
    /\ DOMAIN meta = {"topic", "lang", "summary", "scripts", "segments"}
    /\ meta.topic = topics[idx + 1]
    /\ meta.lang = lang
    /\ meta.summary # None
    /\ DOMAIN meta.scripts = Variants
    /\ \A v \in Variants : meta.scripts[v] # None
    /\ Len(meta.segments) = 5
    /\ meta.segments = split_script_to_segments(meta.scripts["short"])
    /\ fetch.kind = "raised" =>
          /\ meta.summary = <<"[Khong lay duoc Wikipedia", DOT, SP, "Ly do:", SP>>
                            \o fetch.msg \o <<"]">>
          /\ meta.summary # <<>>

\* C8: whatever the fetch and the three requests do, process_topic is never
\* left by an exception: its position is always one of its seven steps or
\* its return, each step taken is one step further (so the return is
\* reached after exactly seven), and at the return the record is complete:
\* topic, lang, summary, the three scripts and the five segments of the
\* short script; after a failed fetch the summary is the placeholder
\* holding the failure's message, never empty.
C8_CompleteRecordDespiteFailures ==
    /\ pc \in StepNames \cup {"return", "main", "usage_error", "loop", "done"}
    /\ pc \in StepNames \cup {"return"} =>
          Len(log) = Len(StepOrder) * idx + StepsDone(pc)
    /\ (pc \in StepNames \cup {"return"} /\ fetch.kind = "raised") =>
          summary = <<"[Khong lay duoc Wikipedia", DOT, SP, "Ly do:", SP>>
                    \o fetch.msg \o <<"]">>
    /\ pc = "return" => RecordComplete

\* the fetch failed, the three requests failed, and the record was made
C8_Witness ==
    /\ pc = "return"
    /\ fetch.kind = "raised"
    /\ \A v \in Variants : ext[v].kind = "raises"
    /\ RecordComplete

----------------------------------------------------------------------------
(* Claim about the --no_ai toggle (checked under Spec). *)

\* C9: the run of process_topic with use_ai negated, everything else and
\* the behaviour of the service being the same, sends the same requests and
\* makes the same scripts and segments; with --no_ai given, the package
\* there and the credential set, every variant generated sent its request.
C9_ToggleHasNoEffect ==
    /\ twin.scripts = scripts
    /\ twin.calls = calls
    /\ twin.segments = segments
    /\ \A v \in Variants :
          (no_ai /\ ExternalEnabled /\ scripts[v] # None) => Len(calls[v]) = 1

\* --no_ai was given and the service was still called for all three variants
C9_Witness ==
    /\ pc = "return"
    /\ no_ai /\ ~use_ai
    /\ \A v \in Variants : Len(calls[v]) = 1
    /\ ext["short"].kind = "ok"
    /\ segments[2].text = <<"p">>

----------------------------------------------------------------------------
(* Claim about the order of the steps (checked under Spec). *)

WriteEvents == SelectSeq(log, LAMBDA e : e.step \in {"write_txt", "write_json"})

\* C10: the steps started so far are, in order, the seven steps fetch,
\* long, from_summary, short, segmentation, text document, JSON record of
\* the first topic of the command line, then the seven of the second, and
\* so on, none missing, repeated or out of place; the files written are
\* those of the write steps, in the same order.
C10_StrictlySequential ==
    LET given == ParseTopics(topics_arg)
        writes == WriteEvents
    IN  /\ \A i \in 1..Len(log) :
              LET k == ((i - 1) \div Len(StepOrder)) + 1
                  j == ((i - 1) % Len(StepOrder)) + 1
              IN  /\ log[i].k = k
                  /\ log[i].step = StepOrder[j]
                  /\ k <= Len(given)
                  /\ log[i].topic = given[k]
        /\ Len(files) = Len(writes)
        /\ \A m \in 1..Len(files) :
              files[m] = IF writes[m].step = "write_txt"
                         THEN TxtFile(writes[m].topic)
                         ELSE JsonFile(writes[m].topic)

\* two different topics were processed to the end, one after the other
C10_Witness ==
    /\ pc = "done"
    /\ Len(topics) = 2
    /\ Len(log) = 14
    /\ log[7].topic # log[8].topic
    /\ Len(files) = 4

====
